---- MODULE Spec2Model ----
(***************************************************************************)
(* Model of the two data-collection scripts of financial-total-crawler:    *)
(*   - api_naver_crawler/improved_api_naver_crawler.py  (news pipeline)    *)
(*   - api_dart_crawler/simple_api_dart_crawler.py      (financial rows)   *)
(* Texts are sequences of one-character strings, so that lower-casing and  *)
(* substring search are computed and not assumed.                          *)
(***************************************************************************)
EXTENDS Integers, Sequences, FiniteSets, TLC

VARIABLES
    program,        \* which script's __main__ is executing: "news" or "dart"
    \* ---- news pipeline: the sqlite cache (persists across program runs)
    companies,      \* table companies: ticker -> row or NoRow
    articles,       \* table articles: a set of rows
    keyword_matches,\* table keyword_matches: sequence of rows (id = index)
    \* ---- news pipeline: the process
    npc,            \* position of main/run_analysis: "idle","tasks","done"
    picked,         \* pending_companies of the current run_analysis
    task,           \* ticker -> state of its analyze_single_company coroutine
    collected_links_session, \* OptimizedNewsAnalyzer.collected_links_session
    sem,            \* AsyncRequestManager.semaphore: free permits
    \* ---- financial pipeline: the files (persist across program runs)
    log,            \* processed_companies.log: sequence of stock codes
    files,          \* stock code -> rows of its CSV file, or NoFile
    \* ---- financial pipeline: the process
    dpc,            \* position of main: "idle","loop","collected","saved","done"
    batch,          \* batch_companies of the current run
    idx,            \* index in batch of the company being processed
    df,             \* result of collect_company_data for that company
    hist,           \* what happened to each company in the current run
    \* ---- collect_company_data (one call)
    cc,             \* its local state
    \* ---- search_news_for_company (one call)
    sn,             \* its inputs and result
    \* ---- fetch_all_listed_companies (one call)
    fl,             \* its inputs and result
    \* ---- register_companies (one call)
    rg              \* its inputs

vars == <<program, companies, articles, keyword_matches, npc, picked,
          task, collected_links_session, sem, log, files, dpc, batch, idx,
          df, hist, cc, sn, fl, rg>>

newsVars == <<companies, articles, keyword_matches, npc, picked, task,
              collected_links_session, sem>>
dartVars == <<log, files, dpc, batch, idx, df, hist>>

(***************************************************************************)
(* Bounds of the model                                                     *)
(***************************************************************************)
MaxMatchRows == 3   \* rows of keyword_matches explored (the table only grows)
MaxUrls == 11       \* URLs of one fetch_all call

Min(a, b) == IF a <= b THEN a ELSE b

Range(s) == {s[i] : i \in DOMAIN s}

(***************************************************************************)
(* Texts                                                                   *)
(***************************************************************************)
\* str.lower() on one character
LowerChar(c) ==
    CASE c = "A" -> "a"
      [] c = "B" -> "b"
      [] c = "D" -> "d"
      [] c = "I" -> "i"
      [] c = "P" -> "p"
      [] OTHER -> c

Lower(s) == [i \in DOMAIN s |-> LowerChar(s[i])]

\* Python's `sub in text`
Contains(sub, text) ==
    \E i \in 0..(Len(text) - Len(sub)) :
        \A j \in 1..Len(sub) : text[i + j] = sub[j]

\* f"{a} {b}"
Join(a, b) == a \o <<" ">> \o b

(***************************************************************************)
(* News pipeline: configuration (OptimizedNewsAnalyzer.__init__)           *)
(***************************************************************************)
START_DATE == 20150101
END_DATE == 20241231
MAX_ARTICLES_PER_COMPANY == 500
MAX_VARIATIONS_PER_COMPANY == 3
max_concurrent == 20
NumPages == 10          \* range(1, 1001, 100)
MAX_CONTENT_LENGTH == 5000

\* A sample of the keyword dictionary, in dictionary order; the categories
\* stand for the first two of the source and keep upper-case keywords.
CategoryOrder == <<"basic", "infra">>
data_asset_keywords ==
    [basic |-> << <<"A", "I">>, <<"D", "B">> >>,
     infra |-> << <<"A", "P", "I">> >>]

RECURSIVE FlattenFrom(_)
FlattenFrom(c) ==
    IF c > Len(CategoryOrder) THEN <<>>
    ELSE [i \in DOMAIN data_asset_keywords[CategoryOrder[c]] |->
             <<CategoryOrder[c], data_asset_keywords[CategoryOrder[c]][i]>>]
         \o FlattenFrom(c + 1)

\* every (category, keyword) of the dictionary, in iteration order
KeywordPairs == FlattenFrom(1)

\* [kw.lower() for sublist in data_asset_keywords.values() for kw in sublist]
all_keywords_flat == [i \in DOMAIN KeywordPairs |-> Lower(KeywordPairs[i][2])]

\* mutant: the keyword is compared as it is spelled in the dictionary
RECURSIVE select_exact_spelling(_, _, _)
select_exact_spelling(pairs, i, text_lower) ==
    IF i > Len(pairs) THEN <<>>
    ELSE (IF Contains(pairs[i][2], text_lower) THEN <<pairs[i]>> ELSE <<>>)
         \o select_exact_spelling(pairs, i + 1, text_lower)

\* Filter a sequence, keeping the order
RECURSIVE SelectPairs(_, _, _)
SelectPairs(pairs, i, text_lower) ==
    IF i > Len(pairs) THEN <<>>
    ELSE (IF Contains(Lower(pairs[i][2]), text_lower) THEN <<pairs[i]>> ELSE <<>>)
         \o SelectPairs(pairs, i + 1, text_lower)

\* match_keywords_in_text: the (category, keyword) pairs whose lower-cased
\* keyword occurs in the lower-cased text; empty categories are dropped, so
\* the dict is empty exactly when this sequence is empty.
match_keywords_in_text(text) == SelectPairs(KeywordPairs, 1, Lower(text))

\* any(kw in text_preview for kw in self.all_keywords_flat)
PreFilterHit(art) ==
    LET text_preview == Lower(Join(art.title, art.description))
    IN  \E i \in DOMAIN all_keywords_flat : Contains(all_keywords_flat[i], text_preview)

(***************************************************************************)
(* _clean_html_tags: tags and entities are single tokens of a text         *)
(***************************************************************************)
IsTag(c) == c \in {"<b>", "</b>"}
Entity(c) == CASE c = "&amp;" -> "&" [] c = "&quot;" -> "\"" [] c = "&nbsp;" -> " " [] OTHER -> c

RECURSIVE RemoveTags(_)
RemoveTags(s) ==
    IF s = <<>> THEN <<>>
    ELSE (IF IsTag(Head(s)) THEN <<>> ELSE <<Head(s)>>) \o RemoveTags(Tail(s))

\* re.sub(r'\s+', ' ', s)
RECURSIVE CollapseSpaces(_)
CollapseSpaces(s) ==
    IF Len(s) < 2 THEN s
    ELSE IF s[1] = " " /\ s[2] = " " THEN CollapseSpaces(Tail(s))
    ELSE <<s[1]>> \o CollapseSpaces(Tail(s))

RECURSIVE Strip(_)
Strip(s) ==
    IF s = <<>> THEN s
    ELSE IF Head(s) = " " THEN Strip(Tail(s))
    ELSE IF s[Len(s)] = " " THEN Strip(SubSeq(s, 1, Len(s) - 1))
    ELSE s

_clean_html_tags(text) ==
    LET clean == RemoveTags(text)
        replaced == [i \in DOMAIN clean |-> Entity(clean[i])]
    IN  Strip(CollapseSpaces(replaced))

(***************************************************************************)
(* generate_company_search_variations                                      *)
(***************************************************************************)
\* the corporate markers of the regular expression, one token each, spelled
\* in ASCII: "(ju)" for the parenthesised and circled forms, "jusikhoesa"
IsCorpMarker(c) == c \in {"(ju)", "jusikhoesa"}

RECURSIVE RemoveMarkers(_)
RemoveMarkers(s) ==
    IF s = <<>> THEN <<>>
    ELSE (IF IsCorpMarker(Head(s)) THEN <<>> ELSE <<Head(s)>>) \o RemoveMarkers(Tail(s))

\* the set of variations; list(set)[:MAX_VARIATIONS_PER_COMPANY] puts it in
\* an order that depends on string hashing
VariationSet(company_name) ==
    LET clean_name == Strip(RemoveMarkers(company_name))
    IN  {company_name} \cup
        (IF clean_name # <<>> /\ Len(clean_name) >= 2 THEN {clean_name} ELSE {})

RECURSIVE Orders(_)
Orders(S) ==
    IF S = {} THEN {<<>>}
    ELSE UNION {{<<x>> \o o : o \in Orders(S \ {x})} : x \in S}

generate_company_search_variations(company_name) ==
    {SubSeq(o, 1, Min(Len(o), MAX_VARIATIONS_PER_COMPANY)) :
        o \in Orders(VariationSet(company_name))}

(***************************************************************************)
(* search_news_for_company                                                 *)
(* An item of a response is [link, pubDate |-> [valid, ymd], title,        *)
(* description]; a response is [status, items] with status "ok" (HTTP      *)
(* 200), "http_error" (any other code), "request_exception"                *)
(* (requests.RequestException) or "error" (any other exception, such as a  *)
(* KeyError on a malformed item).  api[q][p] is the response to page p of  *)
(* the q-th query.                                                         *)
(***************************************************************************)
InDateRange(d) == START_DATE <= d /\ d <= END_DATE

MakeArticle(item) ==
    [pubDate |-> item.pubDate.ymd,
     title |-> _clean_html_tags(item.title),
     description |-> _clean_html_tags(item.description),
     link |-> item.link]

\* set.add; written as an enumeration so that the set is stored flat
SetAdd(S, x) == {y : y \in S \cup {x}}

\* mutant: the session set is not consulted
item_step_unchecked(st, item) ==
    IF st.broke THEN st
    ELSE IF ~item.pubDate.valid THEN st
    ELSE IF ~InDateRange(item.pubDate.ymd) THEN st
    ELSE LET arts2 == Append(st.articles, MakeArticle(item))
         IN  [articles |-> arts2,
              collected |-> SetAdd(st.collected, item.link),
              broke |-> Len(arts2) >= MAX_ARTICLES_PER_COMPANY]

\* one pass of the body of `for item in data` (lines 269-290); broke is
\* set by the break of line 290
ItemStep(st, item) ==
    IF st.broke THEN st
    ELSE IF item.link \in st.collected THEN st
    ELSE IF ~item.pubDate.valid THEN st
    ELSE IF ~InDateRange(item.pubDate.ymd) THEN st
    ELSE LET arts2 == Append(st.articles, MakeArticle(item))
         IN  [articles |-> arts2,
              collected |-> SetAdd(st.collected, item.link),
              broke |-> Len(arts2) >= MAX_ARTICLES_PER_COMPANY]

\* the passes over items[lo..hi] in order; the range is halved only to keep
\* the evaluation shallow
RECURSIVE ItemsLoop(_, _, _, _)
ItemsLoop(items, lo, hi, st) ==
    IF lo > hi THEN st
    ELSE IF lo = hi THEN ItemStep(st, items[lo])
    ELSE LET mid == (lo + hi) \div 2
             left == ItemsLoop(items, lo, mid, st)
         IN  IF left.broke THEN left ELSE ItemsLoop(items, mid + 1, hi, left)

\* for item in data: ... (lines 269-290)
ProcessItems(items, arts, coll) ==
    LET st == ItemsLoop(items, 1, Len(items),
                        [articles |-> arts, collected |-> coll, broke |-> FALSE])
    IN  [articles |-> st.articles, collected |-> st.collected]

\* for start in range(1, 1001, 100): ... (lines 255-293)
RECURSIVE SearchPages(_, _, _, _)
SearchPages(pages, p, arts, coll) ==
    IF p > NumPages THEN [articles |-> arts, collected |-> coll, raised |-> FALSE]
    ELSE LET r == pages[p] IN
         IF r.status = "error"
         THEN [articles |-> arts, collected |-> coll, raised |-> TRUE]
         ELSE IF r.status # "ok" \/ r.items = <<>>
         THEN [articles |-> arts, collected |-> coll, raised |-> FALSE]
         ELSE LET x == ProcessItems(r.items, arts, coll)
              \* The break of line 290 leaves the item loop only, so the next
              \* page is requested whether or not the cap was reached (the
              \* test also makes the page's result a value before the call).
              IN  IF Len(x.articles) >= MAX_ARTICLES_PER_COMPANY
                  THEN SearchPages(pages, p + 1, x.articles, x.collected)
                  ELSE SearchPages(pages, p + 1, x.articles, x.collected)

\* for query in variations: ... (lines 251-294)
RECURSIVE SearchQueries(_, _, _, _, _)
SearchQueries(api, q, nq, arts, coll) ==
    IF q > nq \/ Len(arts) >= MAX_ARTICLES_PER_COMPANY
    THEN [articles |-> arts, collected |-> coll, raised |-> FALSE]
    ELSE LET x == SearchPages(api[q], 1, arts, coll)
         IN  IF x.raised THEN x
             ELSE SearchQueries(api, q + 1, nq, x.articles, x.collected)

search_news_for_company(variations, api, coll) ==
    SearchQueries(api, 1, Len(variations), <<>>, coll)

(***************************************************************************)
(* parse_full_content.  A fetched page is [blank, elem, text]: blank is    *)
(* the empty string _fetch returns on any failure, elem says whether one   *)
(* of the content selectors matches, text is that element's text.          *)
(***************************************************************************)
parse_full_content(html) ==
    IF html.blank THEN <<>>
    ELSE IF html.elem
         THEN LET t == CollapseSpaces(Strip(html.text))
              IN  SubSeq(t, 1, Min(Len(t), MAX_CONTENT_LENGTH))
         ELSE <<>>

(***************************************************************************)
(* DatabaseManager: the tables are sets (sequences) of rows                *)
(***************************************************************************)
HasTicker(table, ticker) == \E r \in table : r.ticker = ticker

\* mutant: ON CONFLICT(ticker) DO UPDATE, the row is written again
upsert_replacing(table, row) ==
    {r \in table : r.ticker # row.ticker}
        \cup {[ticker |-> row.ticker, name |-> row.name,
                market |-> row.market, status |-> "pending"]}

\* INSERT INTO companies ... ON CONFLICT(ticker) DO NOTHING; status defaults
\* to 'pending'
_upsert_company(table, row) ==
    IF HasTicker(table, row.ticker) THEN table
    ELSE table \cup {[ticker |-> row.ticker, name |-> row.name,
                      market |-> row.market, status |-> "pending"]}

RECURSIVE register_companies(_, _)
register_companies(table, companies_df) ==
    IF companies_df = <<>> THEN table
    ELSE register_companies(_upsert_company(table, Head(companies_df)),
                            Tail(companies_df))

\* mutant: the UPDATE without its WHERE clause
update_every_company(table, ticker, status) ==
    {[r EXCEPT !.status = status] : r \in table}

get_pending_companies(table) ==
    {<<r.ticker, r.name>> : r \in {x \in table : x.status = "pending"}}

update_company_status(table, ticker, status) ==
    {IF r.ticker = ticker THEN [r EXCEPT !.status = status] ELSE r : r \in table}

\* mutant: the handler logs the error and records nothing
except_handler_logs_only(table, ticker, raised) ==
    [companies |-> table, outcome |-> IF raised THEN "handler_raised" ELSE "exception"]

\* the handler of analyze_single_company (lines 367-369); raised: its own
\* update_company_status raises (the transaction is rolled back), and since
\* line 369 is outside any try the exception leaves the coroutine
except_handler(table, ticker, raised) ==
    [companies |-> IF raised THEN table
                   ELSE update_company_status(table, ticker, "failed"),
     outcome |-> IF raised THEN "handler_raised" ELSE "exception"]

\* UPDATE companies SET status = 'pending' (run_analysis, line 383)
ResetAllPending(table) == {[r EXCEPT !.status = "pending"] : r \in table}

HasLink(table, link) == \E r \in table : r.link = link

\* mutant: INSERT OR REPLACE
InsertArticleOrReplace(table, row) ==
    {r \in table : r.link # row.link} \cup {row}

\* INSERT OR IGNORE INTO articles ...
InsertArticleOrIgnore(table, row) ==
    IF HasLink(table, row.link) THEN table ELSE table \cup {row}

RECURSIVE InsertArticles(_, _, _)
InsertArticles(table, ticker, arts) ==
    IF arts = <<>> THEN table
    ELSE LET art == Head(arts)
             row == [link |-> art.link, ticker |-> ticker, pub_date |-> art.pubDate,
                     title |-> art.title, description |-> art.description,
                     full_content |-> art.full_content]
         IN  InsertArticles(InsertArticleOrIgnore(table, row), ticker, Tail(arts))

RECURSIVE MatchData(_)
MatchData(arts) ==
    IF arts = <<>> THEN <<>>
    ELSE LET art == Head(arts)
         IN  [i \in DOMAIN art.matched_categories |->
                 [link |-> art.link, category |-> art.matched_categories[i][1],
                  keyword |-> art.matched_categories[i][2]]]
             \o MatchData(Tail(arts))

\* mutant: the articles insert is missing, only the matches are written
save_matches_only(db, ticker, arts) ==
    [articles |-> db.articles,
     keyword_matches |-> db.keyword_matches \o MatchData(arts)]

\* save_articles_and_matches: both inserts commit together
save_articles_and_matches(db, ticker, arts) ==
    [articles |-> InsertArticles(db.articles, ticker, arts),
     keyword_matches |-> db.keyword_matches \o MatchData(arts)]

(***************************************************************************)
(* News pipeline: what the outside world can answer                        *)
(***************************************************************************)
Tickers == {"T1", "T2"}

NameA == <<"A", "B">>
NameA2 == <<"A", "B", "C">>
NameB == <<"C", "D", "(ju)">>

\* get_all_listed_companies: the DataFrames PyKRX can return
Listings ==
    { <<>>,
      << [ticker |-> "T1", name |-> NameA, market |-> "KOSPI"],
         [ticker |-> "T2", name |-> NameB, market |-> "KOSDAQ"] >>,
      << [ticker |-> "T2", name |-> NameB, market |-> "KOSDAQ"],
         [ticker |-> "T1", name |-> NameA2, market |-> "KONEX"] >> }

InDate == [valid |-> TRUE, ymd |-> 20200315]
OutDate == [valid |-> TRUE, ymd |-> 20250101]
BadDate == [valid |-> FALSE, ymd |-> 0]

KwTitle == <<"<b>", "a", "i", "</b>">>
PlainTitle == <<"x", " ", " ", "y">>

I1 == [link |-> 1, pubDate |-> InDate, title |-> KwTitle, description |-> <<>>]
I2p == [link |-> 2, pubDate |-> InDate, title |-> PlainTitle, description |-> <<"&amp;">>]
Iout == [link |-> 2, pubDate |-> OutDate, title |-> KwTitle, description |-> <<>>]
Ibad == [link |-> 1, pubDate |-> BadDate, title |-> KwTitle, description |-> <<>>]

SmallPages ==
    { <<>>, <<I1>>, <<I2p, I1>>, <<I2p>>, <<Iout, Ibad>> }

OkResponse(items) == [status |-> "ok", items |-> items]
FailResponse(status) == [status |-> status, items |-> <<>>]

SmallResponses ==
    {OkResponse(items) : items \in SmallPages}
    \cup {FailResponse(st) : st \in {"http_error", "request_exception", "error"}}

Page2Responses == {OkResponse(<<>>), OkResponse(<<I1>>), FailResponse("error")}

\* every query is answered r1 on its first page, r2 on its second page and
\* nothing afterwards
SmallApi(r1, r2) ==
    [q \in 1..MAX_VARIATIONS_PER_COMPANY |->
        [p \in 1..NumPages |->
            IF p = 1 THEN r1 ELSE IF p = 2 THEN r2 ELSE OkResponse(<<>>)]]

BlankHtml == [blank |-> TRUE, elem |-> FALSE, text |-> <<>>]
Htmls ==
    { BlankHtml,
      [blank |-> FALSE, elem |-> TRUE, text |-> <<" ", "D", "B", " ">>],
      [blank |-> FALSE, elem |-> FALSE, text |-> <<>>] }

(***************************************************************************)
(* News pipeline: the process                                              *)
(***************************************************************************)
NoTask == [pc |-> "none", found |-> <<>>, pre |-> <<>>, waiting |-> 0, inflight |-> 0,
           fetched |-> 0, final |-> <<>>, outcome |-> "none"]

NewTask == [NoTask EXCEPT !.pc = "created"]

\* a coroutine that has returned: its locals are gone, the path it took
\* (its last log line) is kept
Returned(outcome) == [NoTask EXCEPT !.pc = "done", !.outcome = outcome]

PickedTickers(pend) == {x[1] : x \in pend}

\* tasks = [self.analyze_single_company(ticker, name) for ...]
TasksFor(pend) ==
    [t \in Tickers |-> IF t \in PickedTickers(pend) THEN NewTask ELSE NoTask]

NameOf(t) == (CHOOSE x \in picked : x[1] = t)[2]

\* the event loop runs one coroutine at a time: a task between its save and
\* its status update has not yet reached an await
NoTaskInSegment == \A u \in Tickers : task[u].pc # "saved"

\* main() builds a new OptimizedNewsAnalyzer on every program start
NewProcess ==
    /\ program = "news"
    /\ npc = "idle"
    /\ collected_links_session' = {}
    /\ sem' = max_concurrent
    /\ UNCHANGED <<program, log, files, dpc, batch, idx, df, hist, cc, sn, fl, rg>>

\* run_analysis with pending companies in the cache (lines 374, 393-394)
RunAnalysisPending ==
    /\ NewProcess
    /\ get_pending_companies(companies) # {}
    /\ picked' = get_pending_companies(companies)
    /\ task' = TasksFor(picked')
    /\ npc' = "tasks"
    /\ UNCHANGED <<companies, articles, keyword_matches>>

\* nothing pending and the first prompt is not answered 'y' (lines 376-391)
RunAnalysisDeclined ==
    /\ NewProcess
    /\ get_pending_companies(companies) = {}
    /\ picked' = {}
    /\ task' = TasksFor({})
    /\ npc' = "done"
    /\ UNCHANGED <<companies, articles, keyword_matches>>

\* nothing pending, 'y', and the company list comes back empty (lines 387-389)
RunAnalysisNoCompanies ==
    /\ NewProcess
    /\ get_pending_companies(companies) = {}
    /\ <<>> \in Listings
    /\ picked' = {}
    /\ task' = TasksFor({})
    /\ npc' = "done"
    /\ UNCHANGED <<companies, articles, keyword_matches>>

\* the table after lines 381-385: the optional reset, then the registration
RefreshedCompanies(table, companies_df, reset) ==
    register_companies(IF reset THEN ResetAllPending(table) ELSE table, companies_df)

\* nothing pending, 'y', a non-empty company list, second prompt answered
\* reset (lines 378-386, 393-394)
RunAnalysisRefresh(companies_df, reset) ==
    /\ NewProcess
    /\ get_pending_companies(companies) = {}
    /\ companies_df # <<>>
    /\ companies' = RefreshedCompanies(companies, companies_df, reset)
    /\ picked' = get_pending_companies(companies')
    /\ task' = TasksFor(picked')
    /\ npc' = "tasks"
    /\ UNCHANGED <<articles, keyword_matches>>

newsFrame == UNCHANGED <<program, log, files, dpc, batch, idx, df, hist, cc, sn, fl, rg>>

\* the links of the articles list of line 325, which the task keeps (found)
Links(arts) == [i \in DOMAIN arts |-> arts[i].link]

RECURSIVE PreFilter(_)
PreFilter(arts) ==
    IF arts = <<>> THEN <<>>
    ELSE (IF PreFilterHit(Head(arts)) THEN <<Head(arts)>> ELSE <<>>)
         \o PreFilter(Tail(arts))

\* lines 347-357: zip(pre_filtered_articles, html_contents)
RECURSIVE FinalArticles(_, _, _)
FinalArticles(pre, htmls, i) ==
    IF i > Len(pre) THEN <<>>
    ELSE LET art == pre[i]
             full_content == parse_full_content(htmls[i])
             full_text == Join(Join(art.title, art.description), full_content)
             matched_categories == match_keywords_in_text(full_text)
         IN  (IF matched_categories # <<>>
              THEN << [link |-> art.link, pubDate |-> art.pubDate, title |-> art.title,
                       description |-> art.description, full_content |-> full_content,
                       matched_categories |-> matched_categories] >>
              ELSE <<>>)
             \o FinalArticles(pre, htmls, i + 1)

\* fetch_all(urls): one _fetch coroutine per URL, all sleeping at first
StartFetchAll(tk, n) == [tk EXCEPT !.pc = "fetching", !.waiting = n]

\* as_completed schedules every coroutine before run_analysis waits, and
\* the event loop runs their first steps (up to the await of line 345 or
\* to their return) before anything that these steps made ready
AllStarted == \A u \in Tickers : task[u].pc # "created"

\* the tasks run while run_analysis waits for them, and those that have not
\* finished go on after main has closed the database (line 443) until
\* asyncio.run cancels them; every statement on the closed connection raises
TasksRun == npc \in {"tasks", "closed"}
DbClosed == npc = "closed"

\* the task enters its handler and ends there, with or without the
\* exception of the handler's own update
Handled(t, handler_raised) ==
    LET h == except_handler(companies, t, handler_raised)
    IN  /\ companies' = h.companies
        /\ task' = [task EXCEPT ![t] = Returned(h.outcome)]

\* analyze_single_company up to its await (lines 321-345); raised: the
\* update_company_status of line 328 or 339 raises, which the handler of
\* lines 367-369 catches like any other exception of the try block
AnalyzeStart(t, variations, r1, r2, raised, handler_raised) ==
    /\ program = "news"
    /\ npc = "tasks"
    /\ task[t].pc = "created"
    /\ NoTaskInSegment
    /\ LET res == search_news_for_company(variations, SmallApi(r1, r2), {})
           pre == PreFilter(res.articles)
       IN  /\ collected_links_session' = res.collected
           /\ IF res.raised
              THEN /\ ~raised
                   /\ Handled(t, handler_raised)
              ELSE IF res.articles = <<>> \/ pre = <<>>
              THEN IF raised
                   THEN Handled(t, handler_raised)
                   ELSE /\ ~handler_raised
                        /\ companies' = update_company_status(companies, t, "completed")
                        /\ task' = [task EXCEPT ![t] =
                                        Returned(IF res.articles = <<>> THEN "no_articles"
                                                 ELSE "no_keyword")]
              ELSE /\ ~raised
                   /\ ~handler_raised
                   /\ companies' = companies
                   /\ task' = [task EXCEPT ![t] =
                                   StartFetchAll([@ EXCEPT !.found = Links(res.articles),
                                                           !.pre = pre], Len(pre))]
    /\ UNCHANGED <<articles, keyword_matches, npc, picked, sem>>
    /\ newsFrame

\* mutant: acquire never waits
SemaphoreNeverWaits(s) == TRUE

\* asyncio.Semaphore: acquire proceeds only while a permit is free
SemaphoreFree(s) == s > 0

\* _fetch: the sleep is over, the semaphore is acquired, session.get is issued
FetchAcquire(t) ==
    /\ program = "news"
    /\ TasksRun
    /\ AllStarted
    /\ task[t].pc = "fetching"
    /\ task[t].waiting > 0
    /\ NoTaskInSegment
    /\ SemaphoreFree(sem)
    /\ sem' = sem - 1
    /\ task' = [task EXCEPT ![t].waiting = @ - 1, ![t].inflight = @ + 1]
    /\ UNCHANGED <<companies, articles, keyword_matches, npc, picked, collected_links_session>>
    /\ newsFrame

\* _fetch: the response, a timeout or an exception ends the request and
\* leaves `async with self.semaphore`
FetchComplete(t) ==
    /\ program = "news"
    /\ TasksRun
    /\ AllStarted
    /\ task[t].pc = "fetching"
    /\ task[t].inflight > 0
    /\ NoTaskInSegment
    /\ sem' = sem + 1
    /\ task' = [task EXCEPT ![t].inflight = @ - 1, ![t].fetched = @ + 1]
    /\ UNCHANGED <<companies, articles, keyword_matches, npc, picked, collected_links_session>>
    /\ newsFrame

GatherDone(tk) == tk.pc = "fetching" /\ tk.waiting = 0 /\ tk.inflight = 0

\* analyze_single_company after the await, up to and including the save
\* (lines 347-363); raised: an exception on the way (the save's transaction
\* is rolled back) sends the task to its handler (lines 367-369)
AnalyzeSave(t, htmls, raised, handler_raised) ==
    /\ program = "news"
    /\ TasksRun
    /\ AllStarted
    /\ GatherDone(task[t])
    /\ NoTaskInSegment
    /\ Len(keyword_matches) < MaxMatchRows
    /\ (DbClosed /\ raised) => handler_raised
    /\ LET final_articles == FinalArticles(task[t].pre, htmls, 1)
           db == save_articles_and_matches(
                     [articles |-> articles, keyword_matches |-> keyword_matches],
                     t, final_articles)
       IN  /\ (DbClosed /\ final_articles # <<>>) => raised
           /\ IF raised
              THEN /\ Handled(t, handler_raised)
                   /\ UNCHANGED <<articles, keyword_matches>>
              ELSE /\ ~handler_raised
                   /\ task' = [task EXCEPT ![t].pc = "saved", ![t].final = final_articles]
                   /\ articles' = IF final_articles # <<>> THEN db.articles ELSE articles
                   /\ keyword_matches' = IF final_articles # <<>> THEN db.keyword_matches
                                         ELSE keyword_matches
                   /\ UNCHANGED companies
    /\ UNCHANGED <<npc, picked, collected_links_session, sem>>
    /\ newsFrame

\* line 365, or lines 367-369 when that update raises
AnalyzeComplete(t, raised, handler_raised) ==
    /\ program = "news"
    /\ TasksRun
    /\ task[t].pc = "saved"
    /\ DbClosed => (raised /\ handler_raised)
    /\ IF raised
       THEN Handled(t, handler_raised)
       ELSE /\ ~handler_raised
            /\ companies' = update_company_status(companies, t, "completed")
            /\ task' = [task EXCEPT ![t] = Returned(IF task[t].final # <<>> THEN "saved"
                                                    ELSE "no_final")]
    /\ UNCHANGED <<articles, keyword_matches, npc, picked, collected_links_session, sem>>
    /\ newsFrame

\* a task whose handler raised has ended with that exception
TaskRaised == \E t \in Tickers : task[t].outcome = "handler_raised"

\* await f (line 397) re-raises the exception of a task: run_analysis ends
\* there and main, in the same step, logs the error and closes the database
\* (lines 439-443); the tasks that have not finished are still scheduled
RunAnalysisAbort ==
    /\ program = "news"
    /\ npc = "tasks"
    /\ TaskRaised
    /\ AllStarted
    /\ NoTaskInSegment
    /\ npc' = "closed"
    /\ UNCHANGED <<companies, articles, keyword_matches, picked, task,
                   collected_links_session, sem>>
    /\ newsFrame

\* asyncio.run, once main has returned, cancels the tasks that have not
\* finished: they leave their await with CancelledError, which releases the
\* permits they hold and records nothing
CancelAllTasks ==
    /\ program = "news"
    /\ npc = "closed"
    /\ NoTaskInSegment
    /\ npc' = "aborted"
    /\ task' = [t \in Tickers |->
                   IF task[t].pc = "fetching" THEN Returned("cancelled") ELSE task[t]]
    /\ sem' = max_concurrent
    /\ UNCHANGED <<companies, articles, keyword_matches, picked, collected_links_session>>
    /\ newsFrame

\* for f in as_completed(tasks): await f  -- every task has finished (396-399)
RunAnalysisFinish ==
    /\ program = "news"
    /\ npc = "tasks"
    /\ \A t \in Tickers : task[t].pc \in {"none", "done"}
    /\ ~TaskRaised
    /\ npc' = "done"
    /\ UNCHANGED <<companies, articles, keyword_matches, picked, task,
                   collected_links_session, sem>>
    /\ newsFrame

\* the process ends (normally after "done", or killed while the tasks run);
\* only the sqlite file survives
NewsProcessEnd ==
    /\ program = "news"
    /\ npc \in {"tasks", "done", "closed", "aborted"}
    /\ npc' = "idle"
    /\ UNCHANGED <<companies, articles, keyword_matches, picked, task,
                   collected_links_session, sem>>
    /\ newsFrame

NewsNext ==
    \/ RunAnalysisPending
    \/ RunAnalysisDeclined
    \/ RunAnalysisNoCompanies
    \/ \E companies_df \in Listings, reset \in BOOLEAN : RunAnalysisRefresh(companies_df, reset)
    \/ \E t \in PickedTickers(picked), r1 \in SmallResponses, r2 \in Page2Responses :
          \E variations \in generate_company_search_variations(NameOf(t)),
             raised \in BOOLEAN, handler_raised \in BOOLEAN :
              AnalyzeStart(t, variations, r1, r2, raised, handler_raised)
    \/ \E t \in Tickers : FetchAcquire(t)
    \/ \E t \in Tickers : FetchComplete(t)
    \/ \E t \in Tickers, raised \in BOOLEAN, handler_raised \in BOOLEAN :
          \E htmls \in [1..Len(task[t].pre) -> Htmls] :
              AnalyzeSave(t, htmls, raised, handler_raised)
    \/ \E t \in Tickers, raised \in BOOLEAN, handler_raised \in BOOLEAN :
          AnalyzeComplete(t, raised, handler_raised)
    \/ RunAnalysisAbort
    \/ CancelAllTasks
    \/ RunAnalysisFinish
    \/ NewsProcessEnd

InitNews ==
    /\ companies = {}
    /\ articles = {}
    /\ keyword_matches = <<>>
    /\ npc = "idle"
    /\ picked = {}
    /\ task = [t \in Tickers |-> NoTask]
    /\ collected_links_session = {}
    /\ sem = max_concurrent

(***************************************************************************)
(* Financial pipeline: parsing one API answer                              *)
(* An optional number is [some, val]; an amount is a text or NoAmount.     *)
(***************************************************************************)
NoValue == [some |-> FALSE, val |-> 0]
Some(v) == [some |-> TRUE, val |-> v]
NoAmount == <<"None">>

\* an account_id that is JSON null: .strip() on it raises AttributeError
NoId == "None"

Digits == {"0", "1", "2", "3", "4", "5", "6", "7", "8", "9"}
DigitVal(c) ==
    CASE c = "0" -> 0 [] c = "1" -> 1 [] c = "2" -> 2 [] c = "3" -> 3 [] c = "4" -> 4
      [] c = "5" -> 5 [] c = "6" -> 6 [] c = "7" -> 7 [] c = "8" -> 8 [] OTHER -> 9

RECURSIVE RemoveCommas(_)
RemoveCommas(s) ==
    IF s = <<>> THEN <<>>
    ELSE (IF Head(s) = "," THEN <<>> ELSE <<Head(s)>>) \o RemoveCommas(Tail(s))

RECURSIVE DigitsValue(_)
DigitsValue(s) ==
    IF s = <<>> THEN 0 ELSE DigitsValue(SubSeq(s, 1, Len(s) - 1)) * 10 + DigitVal(s[Len(s)])

AllDigits(s) == s # <<>> /\ \A i \in DOMAIN s : s[i] \in Digits

\* float(s) for texts of digits with an optional sign, blanks around them
\* allowed; anything else raises ValueError, which safe_parse_num turns
\* into None (decimals, exponents, inf and nan are outside these texts)
ParseFloat(s) ==
    LET t == Strip(s) IN
    IF AllDigits(t) THEN Some(DigitsValue(t))
    ELSE IF t # <<>> /\ t[1] \in {"-", "+"} /\ AllDigits(Tail(t))
         THEN Some((IF t[1] = "-" THEN -1 ELSE 1) * DigitsValue(Tail(t)))
         ELSE NoValue

NullWords == { <<"n", "a", "n">>, <<"n", "o", "n", "e">>, <<"n", "u", "l", "l">>, <<"-">> }

safe_parse_num(x) ==
    IF x = NoAmount THEN NoValue
    ELSE LET s == RemoveCommas(Strip(x)) IN
         IF s = <<>> \/ Lower(s) \in NullWords THEN NoValue
         ELSE IF s[1] = "(" /\ s[Len(s)] = ")"
              THEN ParseFloat(<<"-">> \o SubSeq(s, 2, Len(s) - 1))
              ELSE ParseFloat(s)

\* the five fields, in the order of account_map, with a sample of their
\* tags and of their account-name keywords (names spelled in ASCII)
Labels == <<"assets", "liabilities", "equity", "revenue", "net_income">>

account_map ==
    [assets |-> <<"ifrs-full_Assets", "Assets">>,
     liabilities |-> <<"ifrs-full_Liabilities", "Liabilities">>,
     equity |-> <<"ifrs-full_Equity", "Equity">>,
     revenue |-> <<"ifrs-full_Revenue", "Revenue">>,
     net_income |-> <<"ifrs-full_ProfitLoss", "ProfitLoss">>]

keyword_map ==
    [assets |-> <<"jasanchonggye", "chongjasan">>,
     liabilities |-> <<"buchaechonggye", "chongbuchae">>,
     equity |-> <<"jabonchonggye", "chongjabon">>,
     revenue |-> <<"maechulaek", "yeongeopsuik">>,
     net_income |-> <<"danggisuniik", "suniik">>]

\* str.strip().lower() on the account ids that occur
IdLower(id) ==
    CASE id \in {"ifrs-full_Assets", " IFRS-FULL_ASSETS "} -> "ifrs-full_assets"
      [] id = "Assets" -> "assets"
      [] id = "ifrs-full_Liabilities" -> "ifrs-full_liabilities"
      [] id = "Liabilities" -> "liabilities"
      [] id = "ifrs-full_Equity" -> "ifrs-full_equity"
      [] id = "Equity" -> "equity"
      [] id = "ifrs-full_Revenue" -> "ifrs-full_revenue"
      [] id = "Revenue" -> "revenue"
      [] id = "ifrs-full_ProfitLoss" -> "ifrs-full_profitloss"
      [] id = "ProfitLoss" -> "profitloss"
      [] OTHER -> id

\* the first (tag, item) pair, tags outermost, whose ids agree
FirstTagHit(items_list, account_tags) ==
    LET hits == {<<t, i>> \in (DOMAIN account_tags) \X (DOMAIN items_list) :
                    IdLower(items_list[i].account_id) = IdLower(account_tags[t])}
    IN  IF hits = {} THEN <<0, 0>>
        ELSE CHOOSE h \in hits :
                 \A g \in hits : h[1] < g[1] \/ (h[1] = g[1] /\ h[2] <= g[2])

extract_values_from_list(items_list, account_tags) ==
    IF items_list = <<>> THEN NoValue
    ELSE LET h == FirstTagHit(items_list, account_tags)
         IN  IF h[2] = 0 THEN NoValue
             ELSE safe_parse_num(items_list[h[2]].thstrm_amount)

\* the first (keyword, item) pair, keywords outermost, with keyword in account_nm
FirstKeywordHit(items_list, keywords) ==
    LET hits == {<<k, i>> \in (DOMAIN keywords) \X (DOMAIN items_list) :
                    Contains(<<keywords[k]>>, items_list[i].account_nm)}
    IN  IF hits = {} THEN <<0, 0>>
        ELSE CHOOSE h \in hits :
                 \A g \in hits : h[1] < g[1] \/ (h[1] = g[1] /\ h[2] <= g[2])

find_by_account_name_keywords(items_list, keywords) ==
    IF items_list = <<>> THEN NoValue
    ELSE LET h == FirstKeywordHit(items_list, keywords)
         IN  IF h[2] = 0 THEN NoValue
             ELSE safe_parse_num(items_list[h[2]].thstrm_amount)

\* item.get('account_id', '').strip() raises on a null id that the first
\* tag's pass reaches
ExtractRaises(items_list, account_tags) ==
    /\ account_tags # <<>>
    /\ \E i \in DOMAIN items_list :
          /\ items_list[i].account_id = NoId
          /\ \A j \in 1..(i - 1) :
                IdLower(items_list[j].account_id) # IdLower(account_tags[1])

\* lines 189-192 for one label
FieldValue(items, label) ==
    LET value == extract_values_from_list(items, account_map[label])
    IN  IF ~value.some THEN find_by_account_name_keywords(items, keyword_map[label])
        ELSE value

\* lines 187-193: the five values of a row
RowValues(items) == [l \in Range(Labels) |-> FieldValue(items, l)]

\* mutant: the row is kept whatever was found
found_always(values) == TRUE

\* found_any of lines 188-195
found_any(values) == \E l \in Range(Labels) : values[l].some

\* the year the process runs in (datetime.now().year) and the period
current_year == 2026
start_year == current_year - 10
end_year == current_year

StockCodes == {"005930", "000660"}
CorpName(stock_code) == IF stock_code = "005930" THEN "Samsung" ELSE "Hynix"

Item(account_id, account_nm, thstrm_amount) ==
    [account_id |-> account_id, account_nm |-> account_nm, thstrm_amount |-> thstrm_amount]

\* answers of the API: assets by tag, liabilities by account name only,
\* nothing recognisable, a recognised account with no amount, a null id
ListTag == << Item("other", <<"gita">>, <<"7">>),
              Item(" IFRS-FULL_ASSETS ", <<"jasan">>, <<" ", "1", ",", "0", "0", "0">>) >>
ListKeyword == << Item("Assets", <<"jasanchonggye">>, <<"-">>),
                  Item("other", <<"yeongyeol", "chongbuchae">>, <<"(", "5", ")">>) >>
ListNone == << Item("other", <<"gita">>, <<"7">>) >>
ListDash == << Item("ifrs-full_Equity", <<"jabon">>, <<"-">>),
               Item("dart_x", <<"gita">>, NoAmount) >>
ListBad == << Item(NoId, <<"gita">>, <<"7">>) >>

Answer(status, list) == [status |-> status, list |-> list]

\* fetch_fnltt_all: the parsed JSON, or status 999 when the request fails
FailedAnswers == { Answer("999", <<>>), Answer("000", <<>>), Answer("013", ListTag) }
RowAnswers == { Answer("000", ListTag), Answer("000", ListKeyword) }
OtherAnswers == { Answer("000", ListNone), Answer("000", ListDash), Answer("000", ListBad) }
Answers == FailedAnswers \cup RowAnswers \cup OtherAnswers

\* the separate statement is not asked for when the consolidated one is there
NotRequested == Answer("", <<>>)

\* the company has usable figures in the newest year of the period, by
\* tag, and in the oldest one, by account name only
AnswersAt(year) ==
    FailedAnswers \cup OtherAnswers \cup
        (IF year = end_year THEN {Answer("000", ListTag)}
         ELSE IF year = start_year THEN {Answer("000", ListKeyword)} ELSE {})

REPRT_PRIORITY == <<"11013", "11012", "11014", "11011">>

\* report names spelled in ASCII
REPORT_NAME == [r \in Range(REPRT_PRIORITY) |->
    CASE r = "11013" -> "Q1" [] r = "11012" -> "half" [] r = "11014" -> "Q3" [] OTHER -> "annual"]
REPORT_DATE_MAP == [r \in Range(REPRT_PRIORITY) |->
    CASE r = "11013" -> "03-31" [] r = "11012" -> "06-30" [] r = "11014" -> "09-30"
      [] OTHER -> "12-31"]

\* lines 196-198
MakeRow(values, year, reprt_code, corp_name, stock_code) ==
    [assets |-> values["assets"], liabilities |-> values["liabilities"],
     equity |-> values["equity"], revenue |-> values["revenue"],
     net_income |-> values["net_income"],
     bsns_year |-> year, reprt_code |-> reprt_code,
     report_name |-> REPORT_NAME[reprt_code],
     report_date |-> <<year, REPORT_DATE_MAP[reprt_code]>>,
     corp_name |-> corp_name, stock_code |-> stock_code]

(***************************************************************************)
(* Financial pipeline: main of simple_api_dart_crawler.py                  *)
(***************************************************************************)
BATCH_SIZE == 400
START_INDEX == 0


\* one entry of listed_companies (lines 113-117), as [key, value]
Listed(stock_code) ==
    [key |-> stock_code,
     value |-> [corp_code |-> IF stock_code = "005930" THEN "00126380" ELSE "00164779", corp_name |-> CorpName(stock_code),
                stock_code |-> stock_code]]

\* fetch_all_listed_companies: the dict (in insertion order) it can return;
\* empty when the request or the parsing fails
DartListings ==
    { <<>>, <<Listed("005930")>>, <<Listed("005930"), Listed("000660")>>,
      <<Listed("000660"), Listed("005930")>> }

None == <<>>

\* what collect_company_data can hand to main for the name and the code of
\* line 263: None or a non-empty frame
CollectResults(corp_name, stock_code) ==
    { None,
      << MakeRow(RowValues(ListTag), current_year, "11011", corp_name, stock_code) >>,
      << MakeRow(RowValues(ListTag), current_year, "11011", corp_name, stock_code),
         MakeRow(RowValues(ListKeyword), current_year - 1, "11011", corp_name,
                 stock_code) >> }

\* collect_company_data before it is called
IdleCollect ==
    [pc |-> "idle", corp_name |-> "", stock_code |-> "", year |-> end_year, ri |-> 1,
     rows |-> <<>>, consecutive_failures |-> 0, result |-> None, last |-> <<>>]

NoFile == <<>>

\* s[a:b] of Python, for 0 <= a and 0 <= b
PySlice(s, a, b) == SubSeq(s, a + 1, Min(b, Len(s)))

\* [(code, info) for code, info in items if code not in S]
RECURSIVE FilterNotIn(_, _)
FilterNotIn(s, S) ==
    IF s = <<>> THEN <<>>
    ELSE (IF Head(s).key \in S THEN <<>> ELSE <<Head(s)>>) \o FilterNotIn(Tail(s), S)

\* mutant: the log is not read back
load_nothing(lg) == {}

\* load_processed_companies: the set of the log's lines
load_processed_companies(lg) == Range(lg)

\* log_processed_company: append one line
log_processed_company(lg, stock_code) == Append(lg, stock_code)

\* lines 244-250
BatchOf(listed, lg) ==
    LET companies_to_process == FilterNotIn(listed, load_processed_companies(lg))
        sliced == PySlice(companies_to_process, START_INDEX, Len(companies_to_process))
    IN  IF BATCH_SIZE > 0 THEN PySlice(sliced, 0, BATCH_SIZE) ELSE sliced

\* save_company_data: to_csv replaces the company's file; written is FALSE
\* when to_csv raises
save_company_data(fs, stock_code, frame, written) ==
    IF frame = None \/ ~written THEN fs
    ELSE [fs EXCEPT ![stock_code] = frame]

dartFrame == UNCHANGED <<program, companies, articles, keyword_matches, npc, picked,
                         task, collected_links_session, sem, cc, sn, fl, rg>>

\* the loop moves on to the next company, or main ends (lines 260, 272-274)
Advance ==
    IF idx < Len(batch) THEN idx' = idx + 1 /\ dpc' = "loop"
    ELSE idx' = idx /\ dpc' = "done"

\* main up to the loop (lines 241-258)
MainAfterListing(listed) ==
    /\ batch' = IF listed = <<>> THEN <<>> ELSE BatchOf(listed, log)
    /\ hist' = [c \in StockCodes |-> "none"]
    /\ df' = None
    /\ IF batch' = <<>> THEN dpc' = "done" /\ idx' = 0
       ELSE dpc' = "loop" /\ idx' = 1
    /\ UNCHANGED <<log, files>>

DartMainStart(listed) ==
    /\ program = "dart"
    /\ dpc = "idle"
    /\ MainAfterListing(listed)
    /\ dartFrame

\* line 263 returns a frame or None
DartCollect(frame) ==
    /\ program = "dart"
    /\ dpc = "loop"
    /\ frame \in CollectResults(batch[idx].value.corp_name, batch[idx].key)
    /\ df' = frame
    /\ dpc' = "collected"
    /\ UNCHANGED <<log, files, batch, idx, hist>>
    /\ dartFrame

\* the exception handler's log_processed_company (line 270); raised: the
\* open or the write fails and nothing is appended, and since line 270 is
\* outside any try the exception leaves main
HandlerLogs(lg, stock_code, raised) ==
    [log |-> IF raised THEN lg ELSE log_processed_company(lg, stock_code),
     crashed |-> raised]

\* lines 268-270 for the company of the loop: it is logged and the loop
\* moves on, or the handler's own exception ends main
Handler(handler_raised) ==
    LET h == HandlerLogs(log, batch[idx].key, handler_raised)
    IN  /\ log' = h.log
        /\ df' = None
        /\ hist' = [hist EXCEPT ![batch[idx].key] = "exception"]
        /\ IF h.crashed THEN dpc' = "crashed" /\ UNCHANGED idx
           ELSE Advance

\* line 263 raises: lines 268-270
DartCollectRaises(handler_raised) ==
    /\ program = "dart"
    /\ dpc = "loop"
    /\ Handler(handler_raised)
    /\ UNCHANGED <<files, batch>>
    /\ dartFrame

\* lines 264-266
DartSave(written) ==
    /\ program = "dart"
    /\ dpc = "collected"
    /\ files' = save_company_data(files, batch[idx].key, df, written)
    /\ hist' = [hist EXCEPT ![batch[idx].key] =
                   IF df = None THEN "no_data"
                   ELSE IF written THEN "saved" ELSE "save_failed"]
    /\ dpc' = "saved"
    /\ UNCHANGED <<log, batch, idx, df>>
    /\ dartFrame

\* line 267; raised: log_processed_company raises there, nothing is
\* appended and the handler of lines 268-270 takes over
DartLog(raised, handler_raised) ==
    /\ program = "dart"
    /\ dpc = "saved"
    /\ IF raised
       THEN Handler(handler_raised)
       ELSE /\ ~handler_raised
            /\ log' = log_processed_company(log, batch[idx].key)
            /\ df' = None
            /\ Advance
            /\ UNCHANGED hist
    /\ UNCHANGED <<files, batch>>
    /\ dartFrame

\* the process ends (after "done", or killed in the loop); the log and the
\* CSV files survive
DartProcessEnd ==
    /\ program = "dart"
    /\ dpc # "idle"
    /\ dpc' = "idle"
    /\ UNCHANGED <<log, files, batch, idx, df, hist>>
    /\ dartFrame

DartNext ==
    \/ \E listed \in DartListings : DartMainStart(listed)
    \/ /\ dpc = "loop"
       /\ \E frame \in CollectResults(batch[idx].value.corp_name, batch[idx].key) :
              DartCollect(frame)
    \/ \E handler_raised \in BOOLEAN : DartCollectRaises(handler_raised)
    \/ \E written \in BOOLEAN : DartSave(written)
    \/ \E raised \in BOOLEAN, handler_raised \in BOOLEAN : DartLog(raised, handler_raised)
    \/ DartProcessEnd

InitDart ==
    /\ log = <<>>
    /\ files = [c \in StockCodes |-> NoFile]
    /\ dpc = "idle"
    /\ batch = <<>>
    /\ idx = 0
    /\ df = None
    /\ hist = [c \in StockCodes |-> "none"]

InitCalls ==
    /\ cc = IdleCollect
    /\ sn = <<>>
    /\ fl = <<>>
    /\ rg = <<>>

Init ==
    /\ program \in {"news", "dart"}
    /\ InitNews
    /\ InitDart
    /\ InitCalls

Next == NewsNext \/ DartNext

Spec == Init /\ [][Next]_vars

(***************************************************************************)
(* The fetch pool alone: run_analysis starts its tasks and each task calls *)
(* fetch_all with up to MaxUrls URLs on the shared AsyncRequestManager.    *)
(***************************************************************************)
UrlArticles(n) ==
    [i \in 1..n |-> [pubDate |-> InDate.ymd, title |-> <<"a", "i">>,
                     description |-> <<>>, link |-> i]]

\* analyze_single_company reaches line 345 with n articles to fetch
FetchAllCall(t, n) ==
    /\ program = "news"
    /\ npc = "tasks"
    /\ task[t].pc = "created"
    /\ task' = [task EXCEPT ![t] = StartFetchAll([@ EXCEPT !.pre = UrlArticles(n)], n)]
    /\ UNCHANGED <<companies, articles, keyword_matches, npc, picked,
                   collected_links_session, sem>>
    /\ newsFrame

\* gather hands the pages back to analyze_single_company (line 175)
FetchAllReturn(t) ==
    /\ program = "news"
    /\ npc = "tasks"
    /\ GatherDone(task[t])
    /\ task' = [task EXCEPT ![t] = Returned("fetched")]
    /\ UNCHANGED <<companies, articles, keyword_matches, npc, picked,
                   collected_links_session, sem>>
    /\ newsFrame

NextFetch ==
    \/ \E companies_df \in Listings : RunAnalysisRefresh(companies_df, FALSE)
    \/ \E t \in Tickers, n \in 1..MaxUrls : FetchAllCall(t, n)
    \/ \E t \in Tickers : FetchAcquire(t)
    \/ \E t \in Tickers : FetchComplete(t)
    \/ \E t \in Tickers : FetchAllReturn(t)

InitFetch ==
    /\ program = "news"
    /\ InitNews
    /\ InitDart
    /\ InitCalls

SpecFetch == InitFetch /\ [][NextFetch]_vars

(***************************************************************************)
(* search_news_for_company alone, against result pages of full size.  The  *)
(* API's answers to one query are described by [full, tail]: the first     *)
(* `full` pages hold DISPLAY new in-range items each, every later page is  *)
(* of kind `tail`.                                                         *)
(***************************************************************************)
DISPLAY == 100

PageLink(q, p, i) == ((q - 1) * NumPages + (p - 1)) * DISPLAY + i

FullPage(q, p, date) ==
    [i \in 1..DISPLAY |->
        [link |-> PageLink(q, p, i), pubDate |-> date, title |-> <<"a", "i">>,
         description |-> <<>>]]

TailKinds == {"empty", "single", "repeat", "old", "http_error"}

TailResponse(kind, q, p) ==
    CASE kind = "empty" -> OkResponse(<<>>)
      [] kind = "single" -> OkResponse(SubSeq(FullPage(q, p, InDate), 1, 1))
      [] kind = "repeat" -> OkResponse(FullPage(1, 1, InDate))
      [] kind = "old" -> OkResponse(FullPage(q, p, OutDate))
      [] OTHER -> FailResponse("http_error")

BigApi(d) ==
    [q \in 1..MAX_VARIATIONS_PER_COMPANY |->
        [p \in 1..NumPages |->
            IF q > Len(d) THEN OkResponse(<<>>)
            ELSE IF p <= d[q].full THEN OkResponse(FullPage(q, p, InDate))
            ELSE TailResponse(d[q].tail, q, p)]]

QueryAnswers == [full : {0, 5, NumPages}, tail : TailKinds]

SearchInputs ==
    {[pc |-> "call", variations |-> v, d |-> <<d1, d2>>, articles |-> <<>>] :
        v \in generate_company_search_variations(NameA)
              \cup generate_company_search_variations(NameB),
        d1 \in QueryAnswers, d2 \in QueryAnswers}

\* lines 323-325 of analyze_single_company: the clear and the search
SearchCall ==
    /\ sn.pc = "call"
    /\ LET res == search_news_for_company(sn.variations, BigApi(sn.d), {})
       IN  /\ sn' = [sn EXCEPT !.pc = IF res.raised THEN "raised" ELSE "returned",
                               !.articles = res.articles]
           /\ collected_links_session' = res.collected
    /\ UNCHANGED <<program, companies, articles, keyword_matches, npc, picked, task,
                   sem, log, files, dpc, batch, idx, df, hist, cc, fl, rg>>

InitSearch ==
    /\ program = "news"
    /\ InitNews
    /\ InitDart
    /\ cc = IdleCollect
    /\ sn \in SearchInputs
    /\ fl = <<>>
    /\ rg = <<>>

SpecSearch == InitSearch /\ [][SearchCall]_vars

(***************************************************************************)
(* Financial pipeline: collect_company_data, one lookup per step           *)
(***************************************************************************)
FAILURE_THRESHOLD == 3

\* mutant: the status alone decides
succeeds_on_status(result) == result.status = "000"

\* result.get('status') == '000' and result.get('list')
Succeeds(result) == result.status = "000" /\ result.list # <<>>

\* lines 177-180: the consolidated statement, else the separate one
LookupAnswer(cfs, ofs) == IF ~Succeeds(cfs) THEN ofs ELSE cfs

RowRaises(items) == \E l \in Range(Labels) : ExtractRaises(items, account_map[l])

\* the for statements of lines 164 and 166 move on
NextPosition(c) ==
    IF c.ri < Len(REPRT_PRIORITY) THEN [c EXCEPT !.ri = c.ri + 1]
    ELSE [c EXCEPT !.year = c.year - 1, !.ri = 1]

\* lines 172-173 and 205-210
ReturnValue(rows) == IF rows = <<>> THEN None ELSE rows

collectFrame == UNCHANGED <<program, companies, articles, keyword_matches, npc, picked,
                            task, collected_links_session, sem, log, files, dpc, batch,
                            idx, df, hist, sn, fl, rg>>

\* lines 159-162
CollectCall(stock_code) ==
    /\ cc.pc = "idle"
    /\ cc' = [IdleCollect EXCEPT !.pc = "loop", !.corp_name = CorpName(stock_code),
                                 !.stock_code = stock_code]
    /\ collectFrame

\* one pass of the inner loop, lines 175-203; last keeps the answers of the
\* requests of this pass
CollectLookup(cfs, ofs) ==
    /\ cc.pc = "loop"
    /\ cc.year >= start_year
    /\ cc.consecutive_failures < FAILURE_THRESHOLD
    /\ cfs \in AnswersAt(cc.year)
    /\ IF Succeeds(cfs) THEN ofs = NotRequested ELSE ofs \in AnswersAt(cc.year)
    /\ LET result == LookupAnswer(cfs, ofs)
           reprt_code == REPRT_PRIORITY[cc.ri]
           asked == [cc EXCEPT !.last = <<cfs, ofs>>]
       IN  IF Succeeds(result)
           THEN IF RowRaises(result.list)
                THEN cc' = [asked EXCEPT !.pc = "raised", !.consecutive_failures = 0]
                ELSE LET values == RowValues(result.list) IN
                     IF found_any(values)
                     THEN cc' = [NextPosition(asked) EXCEPT
                                    !.consecutive_failures = 0,
                                    !.rows = Append(cc.rows,
                                        MakeRow(values, cc.year, reprt_code,
                                                cc.corp_name, cc.stock_code))]
                     ELSE cc' = [NextPosition(asked) EXCEPT !.consecutive_failures = 0]
           ELSE cc' = [NextPosition(asked) EXCEPT
                          !.consecutive_failures = cc.consecutive_failures + 1]
    /\ collectFrame

\* the early stop of lines 170-173
CollectAbort ==
    /\ cc.pc = "loop"
    /\ cc.year >= start_year
    /\ cc.consecutive_failures >= FAILURE_THRESHOLD
    /\ cc' = [cc EXCEPT !.pc = "returned", !.result = ReturnValue(cc.rows)]
    /\ collectFrame

\* the loops are over: lines 205-210
CollectEnd ==
    /\ cc.pc = "loop"
    /\ cc.year < start_year
    /\ cc' = [cc EXCEPT !.pc = "returned", !.result = ReturnValue(cc.rows)]
    /\ collectFrame

NextCollect ==
    \/ \E c \in StockCodes : CollectCall(c)
    \/ \E cfs \in Answers, ofs \in Answers \cup {NotRequested} : CollectLookup(cfs, ofs)
    \/ CollectAbort
    \/ CollectEnd

InitCollect ==
    /\ program = "dart"
    /\ InitNews
    /\ InitDart
    /\ cc = IdleCollect
    /\ sn = <<>>
    /\ fl = <<>>
    /\ rg = <<>>

SpecCollect == InitCollect /\ [][NextCollect]_vars

(***************************************************************************)
(* Financial pipeline: fetch_all_listed_companies and the start of main    *)
(***************************************************************************)
\* find() returned None; the element is there but empty (.text is None)
NoNode == <<"no node">>
NoText == <<"no text">>

Corp(stock_code, modify_date, corp_name) ==
    [stock_code |-> stock_code, modify_date |-> modify_date, corp_name |-> corp_name,
     corp_code |-> <<"0", "0", "1">> \o corp_name]

\* the texts of the stock codes the pipeline works on
TextOf(code) ==
    IF code = "005930" THEN <<"0", "0", "5", "9", "3", "0">>
    ELSE <<"0", "0", "0", "6", "6", "0">>

KeyOf(text) == CHOOSE c \in StockCodes : TextOf(c) = text

\* datetime.now(): the day the process runs on and the seconds since midnight
NowDay == <<current_year, 10, 30>>

IsLeap(y) == (y % 4 = 0 /\ y % 100 # 0) \/ y % 400 = 0

DaysInMonth(y, m) ==
    IF m = 2 THEN (IF IsLeap(y) THEN 29 ELSE 28)
    ELSE IF m \in {4, 6, 9, 11} THEN 30 ELSE 31

RECURSIVE DaysBeforeMonth(_, _)
DaysBeforeMonth(y, m) ==
    IF m = 1 THEN 0 ELSE DaysBeforeMonth(y, m - 1) + DaysInMonth(y, m - 1)

\* date.toordinal()
Ordinal(y, m, d) ==
    LET p == y - 1
    IN  p * 365 + (p \div 4) - (p \div 100) + (p \div 400) + DaysBeforeMonth(y, m) + d

\* datetime.strptime(s, '%Y%m%d') as [ok, day], not ok standing for
\* ValueError; the texts that occur have eight characters or no digit
strptime(s) ==
    IF Len(s) = 8 /\ AllDigits(s)
    THEN LET y == DigitsValue(SubSeq(s, 1, 4))
             m == DigitsValue(SubSeq(s, 5, 6))
             d == DigitsValue(SubSeq(s, 7, 8))
         IN  IF y >= 1 /\ m \in 1..12 /\ d >= 1 /\ d <= DaysInMonth(y, m)
             THEN [ok |-> TRUE, day |-> Ordinal(y, m, d)]
             ELSE [ok |-> FALSE, day |-> 0]
    ELSE [ok |-> FALSE, day |-> 0]

\* timedelta(days=365 * 2) of line 90
DelistDays == 365 * 2

\* mutant: no entry counts as long delisted
never_before_cutoff(day, now_secs) == FALSE

\* modify_date < delist_cutoff_date (lines 90, 105): midnight of a day
\* against a day and its seconds since midnight
BeforeCutoff(day, now_secs) ==
    LET cutoff_day == Ordinal(NowDay[1], NowDay[2], NowDay[3]) - DelistDays
    IN  day < cutoff_day \/ (day = cutoff_day /\ 0 < now_secs)

\* an entry on which the loop body raises AttributeError (lines 96, 100)
CorpRaises(corp) ==
    \/ corp.stock_code = NoText
    \/ /\ corp.stock_code # NoNode
       /\ Strip(corp.stock_code) # <<>>
       /\ corp.modify_date = NoNode

\* lines 94-112: the entry is put in listed_companies
CorpListed(corp, now_secs) ==
    /\ corp.stock_code # NoNode
    /\ Strip(corp.stock_code) # <<>>
    /\ \/ corp.modify_date = NoText
       \/ corp.modify_date = <<>>
       \/ ~strptime(corp.modify_date).ok
       \/ ~BeforeCutoff(strptime(corp.modify_date).day, now_secs)
    /\ Len(Strip(corp.stock_code)) = 6
    /\ AllDigits(Strip(corp.stock_code))

\* listed_companies[stock_code] = {...}: a dict keeps the place of a key
\* it already has and takes the new value
DictSet(dict, key, value) ==
    IF \E i \in DOMAIN dict : dict[i].key = key
    THEN [i \in DOMAIN dict |-> IF dict[i].key = key THEN [key |-> key, value |-> value]
                                ELSE dict[i]]
    ELSE Append(dict, [key |-> key, value |-> value])

RECURSIVE ListedFrom(_, _, _)
ListedFrom(corps, now_secs, dict) ==
    IF corps = <<>> THEN dict
    ELSE LET corp == Head(corps)
             stock_code == Strip(corp.stock_code)
         IN  ListedFrom(Tail(corps), now_secs,
                 IF CorpListed(corp, now_secs)
                 THEN DictSet(dict, KeyOf(stock_code),
                              [corp_code |-> corp.corp_code, corp_name |-> corp.corp_name,
                               stock_code |-> KeyOf(stock_code)])
                 ELSE dict)

\* the dict as a sequence of [key, value] in insertion order; {} is <<>>
fetch_all_listed_companies(response, now_secs) ==
    IF response.kind # "ok" THEN <<>>
    ELSE IF \E i \in DOMAIN response.list : CorpRaises(response.list[i]) THEN <<>>
    ELSE ListedFrom(response.list, now_secs, <<>>)

DictKeys(dict) == [i \in DOMAIN dict |-> dict[i].key]

\* entries of corpCode.xml
DateOld == <<"2", "0", "2", "0", "0", "1", "0", "1">>
DateEdge == <<"2", "0", "2", "4", "1", "0", "3", "0">>
DateNew == <<"2", "0", "2", "4", "1", "0", "3", "1">>
DateBad == <<"2", "0", "2", "4", "0", "2", "3", "0">>

Corps ==
    { Corp(TextOf("005930"), NoText, <<"S">>),
      Corp(TextOf("005930"), DateOld, <<"S">>),
      Corp(<<" ">> \o TextOf("005930") \o <<" ">>, DateEdge, <<"S", "2">>),
      Corp(TextOf("000660"), DateNew, <<"H">>),
      Corp(TextOf("000660"), DateBad, <<"H", "2">>),
      Corp(<<" ">>, NoText, <<"U">>),
      Corp(NoNode, NoText, <<"U">>),
      Corp(NoText, NoText, <<"U">>),
      Corp(<<"1", "2", "3", "4", "5">>, NoText, <<"F">>),
      Corp(<<"0", "0", "5", "9", "3", "K">>, DateNew, <<"K">>),
      Corp(TextOf("000660"), NoNode, <<"H">>) }

Directories == {<<>>} \cup {<<a>> : a \in Corps} \cup {<<a, b>> : a \in Corps, b \in Corps}

\* the answer to the request of line 78: raise_for_status or the zip or the
\* XML parser fails, or the directory is read
DirectoryResponses ==
    { [kind |-> "http_error", list |-> <<>>], [kind |-> "bad_zip", list |-> <<>>] }
    \cup { [kind |-> "ok", list |-> l] : l \in Directories }

ListingInputs ==
    [pc : {"call"}, response : DirectoryResponses, now_secs : {0, 32400},
     log0 : {<<>>, <<"005930">>}, result : {<<>>}]

\* main, lines 241-258, with the directory it is given
ListingMain ==
    /\ program = "dart"
    /\ dpc = "idle"
    /\ fl.pc = "call"
    /\ LET listed_companies_dict == fetch_all_listed_companies(fl.response, fl.now_secs)
       IN  /\ fl' = [fl EXCEPT !.pc = "done", !.result = listed_companies_dict]
           /\ MainAfterListing(listed_companies_dict)
    /\ UNCHANGED <<program, companies, articles, keyword_matches, npc, picked, task,
                   collected_links_session, sem, cc, sn, rg>>

NextListing ==
    \/ ListingMain
    \/ /\ dpc = "loop"
       /\ \E frame \in CollectResults(batch[idx].value.corp_name, batch[idx].key) :
              DartCollect(frame)
    \/ \E handler_raised \in BOOLEAN : DartCollectRaises(handler_raised)
    \/ \E written \in BOOLEAN : DartSave(written)
    \/ \E raised \in BOOLEAN, handler_raised \in BOOLEAN : DartLog(raised, handler_raised)

InitListing ==
    /\ program = "dart"
    /\ InitNews
    /\ fl \in ListingInputs
    /\ log = fl.log0
    /\ files = [c \in StockCodes |-> NoFile]
    /\ dpc = "idle"
    /\ batch = <<>>
    /\ idx = 0
    /\ df = None
    /\ hist = [c \in StockCodes |-> "none"]
    /\ cc = IdleCollect
    /\ sn = <<>>
    /\ rg = <<>>

SpecListing == InitListing /\ [][NextListing]_vars

(***************************************************************************)
(* News pipeline: one call of register_companies                           *)
(***************************************************************************)
\* the companies table as earlier runs can have left it
CompanyRows(ticker, name, market) ==
    { {} } \cup { {[ticker |-> ticker, name |-> name, market |-> market, status |-> st]} :
                     st \in {"pending", "completed", "failed"} }

RegisterTables ==
    { a \cup b : a \in CompanyRows("T1", NameA, "KOSPI"),
                 b \in CompanyRows("T2", NameB, "KOSDAQ") }

\* the DataFrames handed to register_companies (never empty, line 380)
RegisterFrames ==
    (Listings \ {<<>>})
    \cup { << [ticker |-> "T1", name |-> NameA2, market |-> "KONEX"] >>,
           << [ticker |-> "T2", name |-> NameB, market |-> "KOSDAQ"] >>,
           << [ticker |-> "T1", name |-> NameA, market |-> "KOSPI"],
              [ticker |-> "T1", name |-> NameA2, market |-> "KONEX"] >> }

RegisterInputs == [pc : {"call"}, companies_df : RegisterFrames, before : RegisterTables]

\* line 385
RegisterCall ==
    /\ rg.pc = "call"
    /\ companies' = register_companies(companies, rg.companies_df)
    /\ rg' = [rg EXCEPT !.pc = "done"]
    /\ UNCHANGED <<program, articles, keyword_matches, npc, picked, task,
                   collected_links_session, sem, log, files, dpc, batch, idx, df, hist,
                   cc, sn, fl>>

InitRegister ==
    /\ program = "news"
    /\ rg \in RegisterInputs
    /\ companies = rg.before
    /\ articles = {}
    /\ keyword_matches = <<>>
    /\ npc = "idle"
    /\ picked = {}
    /\ task = [t \in Tickers |-> NoTask]
    /\ collected_links_session = {}
    /\ sem = max_concurrent
    /\ InitDart
    /\ cc = IdleCollect
    /\ sn = <<>>
    /\ fl = <<>>

SpecRegister == InitRegister /\ [][RegisterCall]_vars

(***************************************************************************)
(* Properties                                                              *)
(***************************************************************************)
Finished == {"completed", "failed"}

StatusIn(table, ticker, S) == \E r \in table : r.ticker = ticker /\ r.status \in S

\* C1 as stated: in every step, a company that is completed or failed keeps
\* that status (it is never pending again and never moves between the two).
C1_NeverBackward ==
    [][\A r \in companies : r.status \in Finished =>
          StatusIn(companies', r.ticker, {r.status})]_vars

\* the step is the refresh of run_analysis taken with the reset: nothing was
\* pending when the process started, and afterwards every company is pending
IsResetStep ==
    /\ npc = "idle"
    /\ npc' = "tasks"
    /\ get_pending_companies(companies) = {}
    /\ \A r \in companies' : r.status = "pending"

\* C1 amended: a company that is completed or failed keeps that status in
\* every step except the reset of run_analysis's refresh path, which makes
\* every company pending at once; in particular no step moves a company
\* between completed and failed.
C1_BackwardOnlyByReset ==
    [][(\A r \in companies : r.status \in Finished =>
           StatusIn(companies', r.ticker, {r.status}))
       \/ IsResetStep]_vars

\* a run has ended with one company completed and another failed
C1_Witness ==
    /\ npc = "done"
    /\ \E r \in companies : r.status = "completed"
    /\ \E r \in companies : r.status = "failed"

\* C2: the articles table holds at most one row per link, and no step
\* removes or changes a stored row (saving a stored link leaves it as it is).
C2_UniqueByLink ==
    [][/\ \A r \in articles : r \in articles'
       /\ \A r1, r2 \in articles' : r1.link = r2.link => r1 = r2]_vars

\* a save has just returned for an article whose link was already stored
\* with another ticker or another full content
C2_Witness ==
    \E t \in Tickers :
        /\ task[t].pc = "saved"
        /\ \E i \in DOMAIN task[t].final : \E r \in articles :
              /\ r.link = task[t].final[i].link
              /\ (r.ticker # t \/ r.full_content # task[t].final[i].full_content)

\* C5: when run_analysis has finished, every company it picked up as pending
\* is completed or failed.
C5_PickedLeavePending ==
    npc = "done" => \A x \in picked : StatusIn(companies, x[1], Finished)

\* run_analysis has finished after one task found nothing to save and the
\* other saved articles
C5_Witness ==
    /\ npc = "done"
    /\ \E t \in Tickers : task[t].outcome = "saved"
    /\ \E t \in Tickers : task[t].outcome \in {"no_articles", "no_keyword"}

InLoop == dpc \in {"loop", "collected", "saved"}

\* C4: no stock code is ever in the processed log twice, when main has gone
\* through its batch every company of the batch is in the log, and a company
\* that waits in the batch of a run is not in the log (a logged company is
\* never selected again).
C4_LoggedExactlyOnce ==
    /\ \A i, j \in DOMAIN log : log[i] = log[j] => i = j
    /\ dpc = "done" => \A i \in DOMAIN batch : batch[i].key \in Range(log)
    /\ \A i \in DOMAIN batch :
          (i > idx \/ (i = idx /\ InLoop)) => batch[i].key \notin Range(log)

\* a later run has finished whose batch left out the company logged before
C4_Witness ==
    /\ dpc = "done"
    /\ Len(batch) = 1
    /\ Len(log) = 2
    /\ log[2] = batch[1].key
    /\ hist[batch[1].key] = "save_failed"

\* C6: the status is recorded after the persist step.  News: a task that has
\* not yet recorded a status leaves its company pending, and a company turns
\* completed only when every article its task matched is already stored.
\* Financial: the company being processed is not in the log, and the log is
\* appended with a frame in hand only after save_company_data was attempted.
C6_StatusAfterPersist ==
    [][/\ \A t \in Tickers :
             task[t].pc \in {"created", "fetching", "saved"} =>
                 StatusIn(companies, t, {"pending"})
       /\ \A t \in Tickers :
             (/\ StatusIn(companies', t, {"completed"})
              /\ ~StatusIn(companies, t, {"completed"})
              /\ task[t].final # <<>>)
             => \A i \in DOMAIN task[t].final :
                    \E r \in articles :
                        /\ r.link = task[t].final[i].link
                        /\ \E k \in DOMAIN keyword_matches :
                              keyword_matches[k].link = r.link
       /\ InLoop => batch[idx].key \notin Range(log)
       /\ (log' # log /\ df # None) => dpc = "saved"]_vars

\* a company is completed by a task that saved its articles
C6_Witness ==
    \E t \in Tickers :
        /\ task[t].outcome = "saved"
        /\ StatusIn(companies, t, {"completed"})
        /\ \E r \in articles : r.ticker = t

\* C7: an exception raised while processing one company never stops the
\* batch.  News: run_analysis is never ended by the exception of a task, a
\* task that raised leaves its company failed, and when the run is over
\* every company it picked was processed to its end.  Financial: main is
\* never ended by an exception of the loop body, a company whose processing
\* raised is in the processed log, and when main is over every company of
\* the batch was processed.
C7_LogAndSkip ==
    /\ npc \notin {"closed", "aborted"}
    /\ npc \in {"tasks", "done"} =>
          \A x \in picked :
              task[x[1]].outcome \in {"exception", "handler_raised"} =>
                  StatusIn(companies, x[1], {"failed"})
    /\ npc = "done" =>
          \A x \in picked : task[x[1]].pc = "done" /\ task[x[1]].outcome # "cancelled"
    /\ dpc # "crashed"
    /\ dpc \in {"loop", "collected", "saved", "done"} =>
          \A i \in DOMAIN batch :
              hist[batch[i].key] = "exception" => batch[i].key \in Range(log)
    /\ dpc = "done" => \A i \in DOMAIN batch : hist[batch[i].key] # "none"

\* C9 as stated: no step removes or alters a row of a company's file.
C9_RowsOnlyGrow ==
    [][\A c \in StockCodes : \A i \in DOMAIN files[c] :
          \E j \in DOMAIN files'[c] : files'[c][j] = files[c][i]]_vars

RECURSIVE SumInflight(_)
SumInflight(S) ==
    IF S = {} THEN 0
    ELSE LET t == CHOOSE x \in S : TRUE
         IN  task[t].inflight + SumInflight(S \ {t})

\* C3: at every moment at most max_concurrent session.get requests are in
\* flight, counted over the URLs of every fetch_all call of every task.
C3_BoundedFetches == SumInflight(Tickers) <= max_concurrent

\* the pool is full with requests of both tasks and a further request waits
C3_Witness ==
    /\ SumInflight(Tickers) = max_concurrent
    /\ \A t \in Tickers : task[t].inflight > 0
    /\ \E t \in Tickers : task[t].waiting > 0

\* C8 as stated: search_news_for_company returns at most
\* MAX_ARTICLES_PER_COMPANY articles.
C8_AtMostMax ==
    sn.pc = "returned" => Len(sn.articles) <= MAX_ARTICLES_PER_COMPANY

\* C10: in the result of collect_company_data no two rows share the same
\* (bsns_year, reprt_code), every row carries the name and the stock code of
\* the company of the call, and every row has at least one of the five
\* fields present.
C10_OneRowPerPeriod ==
    (cc.pc = "returned" /\ cc.result # None) =>
        /\ \A i, j \in DOMAIN cc.result :
              (cc.result[i].bsns_year = cc.result[j].bsns_year
               /\ cc.result[i].reprt_code = cc.result[j].reprt_code) => i = j
        /\ \A i \in DOMAIN cc.result :
              /\ cc.result[i].corp_name = cc.corp_name
              /\ cc.result[i].stock_code = cc.stock_code
              /\ cc.result[i].corp_name = CorpName(cc.stock_code)
              /\ \E l \in Range(Labels) : cc.result[i][l].some

\* a returned frame with a row whose assets were found by tag and nothing
\* else, and a row of another year for the same report whose liabilities
\* were found by account name and nothing else
C10_Witness ==
    /\ cc.pc = "returned"
    /\ cc.result # None
    /\ \E i, j \in DOMAIN cc.result :
          /\ cc.result[i].assets = Some(1000) /\ ~cc.result[i].liabilities.some
          /\ cc.result[j].liabilities = Some(-5) /\ ~cc.result[j].assets.some
          /\ cc.result[i].bsns_year # cc.result[j].bsns_year
          /\ cc.result[i].reprt_code = cc.result[j].reprt_code
    /\ \E i, j \in DOMAIN cc.result :
          /\ cc.result[i].bsns_year = cc.result[j].bsns_year
          /\ cc.result[i].reprt_code # cc.result[j].reprt_code

\* the entries of the directory that the enumerator is to keep: a stock code
\* of six digits, and a modify_date that is empty, unparseable or not
\* earlier than 730 days before now
KeptEntries ==
    {i \in DOMAIN fl.response.list :
        LET corp == fl.response.list[i]
            code == IF corp.stock_code = NoNode THEN <<>> ELSE Strip(corp.stock_code)
            date == strptime(corp.modify_date)
        IN  /\ Len(code) = 6
            /\ \A k \in 1..6 : code[k] \in Digits
            /\ \/ corp.modify_date \in {NoText, <<>>}
               \/ ~date.ok
               \/ date.day + 730 > Ordinal(NowDay[1], NowDay[2], NowDay[3])
               \/ /\ date.day + 730 = Ordinal(NowDay[1], NowDay[2], NowDay[3])
                  /\ fl.now_secs = 0}

\* the request or the reading of the directory failed
ListingFailed ==
    \/ fl.response.kind # "ok"
    \/ \E i \in DOMAIN fl.response.list : CorpRaises(fl.response.list[i])

\* C11: the working set of fetch_all_listed_companies holds exactly the
\* directory entries with a six-digit stock code whose modify_date is empty,
\* unparseable or not earlier than 730 days before now, one entry per stock
\* code (the last one of the directory); it is empty when the request or the
\* reading fails, and with an empty working set main processes no company and
\* leaves the processed log as it was.
C11_WorkingSet ==
    fl.pc = "done" =>
        /\ ListingFailed => fl.result = <<>>
        /\ ~ListingFailed =>
              /\ {fl.result[k].key : k \in DOMAIN fl.result} =
                    {KeyOf(Strip(fl.response.list[i].stock_code)) : i \in KeptEntries}
              /\ \A k, j \in DOMAIN fl.result : fl.result[k].key = fl.result[j].key => k = j
              /\ \A k \in DOMAIN fl.result :
                    \E i \in KeptEntries :
                       /\ TextOf(fl.result[k].key) = Strip(fl.response.list[i].stock_code)
                       /\ fl.result[k].value.stock_code = fl.result[k].key
                       /\ fl.result[k].value.corp_name = fl.response.list[i].corp_name
                       /\ fl.result[k].value.corp_code = fl.response.list[i].corp_code
                       /\ \A j \in KeptEntries :
                             Strip(fl.response.list[j].stock_code)
                                = Strip(fl.response.list[i].stock_code) => j <= i
        /\ fl.result = <<>> =>
              /\ dpc = "done"
              /\ batch = <<>>
              /\ log = fl.log0
              /\ \A c \in StockCodes : hist[c] = "none" /\ files[c] = NoFile

\* a directory of two listed companies read at nine in the morning: the one
\* modified exactly 730 days ago is dropped, the other is the working set
\* and main has started on it
C11_Witness ==
    /\ fl.pc = "done"
    /\ fl.response.kind = "ok"
    /\ fl.now_secs > 0
    /\ Len(fl.response.list) = 2
    /\ fl.response.list[1].modify_date = DateEdge
    /\ fl.response.list[2].modify_date = DateNew
    /\ DictKeys(fl.result) = <<"000660">>
    /\ dpc = "loop"

\* C12 as stated: a save never leaves keyword_matches with two rows of the
\* same (link, category, keyword), and every match row it adds refers to an
\* article row whose ticker is the company the save was made for (the
\* company whose task takes the step).
C12_MatchesBelongToCompany ==
    [][keyword_matches' # keyword_matches =>
          /\ \A i, j \in DOMAIN keyword_matches' :
                keyword_matches'[i] = keyword_matches'[j] => i = j
          /\ \A i \in (Len(keyword_matches) + 1)..Len(keyword_matches') :
                \E a \in articles' :
                   /\ a.link = keyword_matches'[i].link
                   /\ \A t \in Tickers : task'[t] # task[t] => a.ticker = t]_vars

\* C13: a lookup fails when neither the CFS nor the OFS answer has status
\* '000' with a non-empty list (the OFS request being made exactly when the
\* CFS answer is not such a one), a failed lookup adds one to the count of
\* consecutive failures and any other lookup sets it to 0, no lookup is made
\* once the count has reached 3, and the only step then is the return of the
\* rows collected so far, or of None when there are none.
C13_EarlyAbort ==
    [][cc.pc = "loop" =>
          LET moved == cc'.year # cc.year \/ cc'.ri # cc.ri \/ cc'.pc = "raised"
              cfs == cc'.last[1]
              ofs == cc'.last[2]
              Usable(a) == a.status = "000" /\ Len(a.list) > 0
          IN  /\ moved =>
                    /\ cc.consecutive_failures < 3
                    /\ (ofs # NotRequested) <=> ~Usable(cfs)
                    /\ IF ~Usable(cfs) /\ ~Usable(ofs)
                       THEN cc'.consecutive_failures = cc.consecutive_failures + 1
                       ELSE cc'.consecutive_failures = 0
              /\ cc.consecutive_failures >= 3 =>
                    /\ ~moved
                    /\ cc'.last = cc.last
                    /\ cc'.rows = cc.rows
                    /\ cc'.pc = "returned"
                    /\ cc'.result = IF cc.rows = <<>> THEN None ELSE cc.rows]_vars

\* the call stopped early, years before the end of the period, on a third
\* failed lookup in a row (CFS with status 000 and an empty list, OFS with
\* status 013), and returned the rows it had
C13_Witness ==
    /\ cc.pc = "returned"
    /\ cc.consecutive_failures = 3
    /\ cc.year > start_year + 5
    /\ cc.result # None
    /\ cc.result = cc.rows
    /\ cc.last = <<Answer("000", <<>>), Answer("013", ListTag)>>

\* C14: register_companies leaves every row of the table as it is and adds,
\* for each ticker of the list that the table lacks, one row with status
\* pending that carries the name and market of the ticker's first row in the
\* list; nothing else is added.
C14_InsertIfAbsent ==
    rg.pc = "done" =>
        /\ \A r \in rg.before : r \in companies
        /\ \A i \in DOMAIN rg.companies_df :
              \E r \in companies : r.ticker = rg.companies_df[i].ticker
        /\ \A r \in companies \ rg.before :
              /\ r.status = "pending"
              /\ \A b \in rg.before : b.ticker # r.ticker
              /\ \E i \in DOMAIN rg.companies_df :
                    /\ rg.companies_df[i].ticker = r.ticker
                    /\ rg.companies_df[i].name = r.name
                    /\ rg.companies_df[i].market = r.market
                    /\ \A j \in 1..(i - 1) : rg.companies_df[j].ticker # r.ticker
        /\ \A r, q \in companies : r.ticker = q.ticker => r = q

\* a list with a known, completed company under a new name and market and a
\* company the table lacks: the first row is untouched, the second is added
C14_Witness ==
    /\ rg.pc = "done"
    /\ Len(rg.companies_df) = 2
    /\ rg.companies_df[2] = [ticker |-> "T1", name |-> NameA2, market |-> "KONEX"]
    /\ rg.before = {[ticker |-> "T1", name |-> NameA, market |-> "KOSPI",
                     status |-> "completed"]}
    /\ companies = rg.before \cup {[ticker |-> "T2", name |-> NameB, market |-> "KOSDAQ",
                                    status |-> "pending"]}

\* C15: when analyze_single_company has gone through its final_articles
\* loop, final_articles holds every pre-filtered article, in order and each
\* with a non-empty match set, whatever was fetched; no task ends on the
\* 'no relevant article after full-text analysis' branch.
C15_PreFilteredAllSaved ==
    \A t \in Tickers :
        /\ task[t].pc = "saved" =>
              /\ Len(task[t].final) = Len(task[t].pre)
              /\ \A i \in DOMAIN task[t].pre :
                    /\ task[t].final[i].link = task[t].pre[i].link
                    /\ task[t].final[i].matched_categories # <<>>
        /\ task[t].outcome # "no_final"

\* a task saved its pre-filtered article although the body fetched for it
\* was empty
C15_Witness ==
    \E t \in Tickers :
        /\ task[t].pc = "saved"
        /\ task[t].pre # <<>>
        /\ task[t].final # <<>>
        /\ task[t].final[1].full_content = <<>>
        /\ \E a \in articles : a.link = task[t].final[1].link /\ a.ticker = t

\* C16: the articles list that search_news_for_company returned to a task
\* never holds the same link twice, whichever tasks ran before it or run
\* beside it on the shared collected_links_session.
C16_NoLinkTwice ==
    \A t \in Tickers :
        \A i, j \in DOMAIN task[t].found :
            task[t].found[i] = task[t].found[j] => i = j

\* two tasks wait for their fetches at the same time, each with the link 1
\* in its list (the second cleared the shared set the first had filled),
\* one of them with a second link, and the shared set is the later one's
C16_Witness ==
    \E t, u \in Tickers :
        /\ t # u
        /\ task[t].pc = "fetching"
        /\ task[u].pc = "fetching"
        /\ Len(task[t].found) = 2
        /\ 1 \in Range(task[t].found)
        /\ 1 \in Range(task[u].found)
        /\ collected_links_session = Range(task[u].found)
        /\ collected_links_session # Range(task[t].found)

====
